---- MODULE Spec2Model ----
(***************************************************************************)
(* BIP-137 signed-message verification (package verify): the envelope      *)
(* decoder, the DER builder, the message canonicalizer and the             *)
(* orchestrating entry points, as a state machine over one call.           *)
(*                                                                         *)
(* Representation                                                          *)
(*   byte string   sequence of 0..255                                      *)
(*   uint64        its 8 bytes, least significant first                    *)
(*   big integer   its big-endian bytes without leading zero bytes         *)
(*   error         the chain of messages, outermost first; <<>> is nil     *)
(*   base64 text   [text, raw]: whether the text decodes and to what; the  *)
(*                 empty text decodes to no bytes                          *)
(***************************************************************************)
EXTENDS Integers, Sequences, FiniteSets, TLC

VARIABLES pc, op, args, ret, calls, directRes, addrRes,
          ctxDone, wpc, wres, resultCh, order, sel, fin, fout

vars == <<pc, op, args, ret, calls, directRes, addrRes,
          ctxDone, wpc, wres, resultCh, order, sel, fin, fout>>

----------------------------------------------------------------------------
(* Errors *)

Nil == <<>>
Wrap(context, err) == <<context>> \o err
\* errors.Is: target is the tail of the chain
ErrorsIs(err, target) ==
    /\ target # Nil
    /\ Len(err) >= Len(target)
    /\ SubSeq(err, Len(err) - Len(target) + 1, Len(err)) = target

ErrVerificationTimeout == <<"signature verification timed out">>
ErrEmptyAddress == <<"empty bitcoin address">>
ErrEmptyMessage == <<"empty message">>
ErrEmptySignature == <<"empty signature">>

----------------------------------------------------------------------------
(* Message canonicalizer *)

\* uint64(n) for a length n below 2^31
Uint64(n) == [i \in 1..8 |->
                 CASE i = 1 -> n % 256
                   [] i = 2 -> (n \div 256) % 256
                   [] i = 3 -> (n \div 65536) % 256
                   [] i = 4 -> (n \div 16777216) % 256
                   [] OTHER -> 0]

HighZero(n, from) == \A i \in from..8 : n[i] = 0

\* appendCompactSize with the first threshold at 254 instead of 253
appendCompactSizeOneByteUpTo253(b, n) ==
    IF HighZero(n, 2) /\ n[1] < 254 THEN Append(b, n[1])
    ELSE IF HighZero(n, 3) THEN (Append(b, 253)) \o <<n[1], n[2]>>
    ELSE IF HighZero(n, 5) THEN (Append(b, 254)) \o <<n[1], n[2], n[3], n[4]>>
    ELSE (Append(b, 255)) \o <<n[1], n[2], n[3], n[4], n[5], n[6], n[7], n[8]>>

appendCompactSize(b, n) ==
    IF HighZero(n, 2) /\ n[1] < 253 THEN Append(b, n[1])
    ELSE IF HighZero(n, 3) THEN (Append(b, 253)) \o <<n[1], n[2]>>
    ELSE IF HighZero(n, 5) THEN (Append(b, 254)) \o <<n[1], n[2], n[3], n[4]>>
    ELSE (Append(b, 255)) \o <<n[1], n[2], n[3], n[4], n[5], n[6], n[7], n[8]>>

\* "Bitcoin Signed Message:\n"
prefixBytes == <<66, 105, 116, 99, 111, 105, 110, 32, 83, 105, 103, 110, 101, 100, 32,
                 77, 101, 115, 115, 97, 103, 101, 58, 10>>

\* the result buffer kept from the call before instead of a fresh one
formatIntoLastResult(message) ==
    LET r1 == appendCompactSize(fout, Uint64(Len(prefixBytes)))
        r2 == r1 \o prefixBytes
        r3 == appendCompactSize(r2, Uint64(Len(message)))
    IN  r3 \o message

formatBitcoinMessageForVerification(message) ==
    LET r1 == appendCompactSize(<<>>, Uint64(Len(prefixBytes)))
        r2 == r1 \o prefixBytes
        r3 == appendCompactSize(r2, Uint64(Len(message)))
    IN  r3 \o message

----------------------------------------------------------------------------
(* External capabilities: base64, SHA-256, secp256k1, addresses *)

RSLen == 32

\* z zero bytes followed by bytes of value b, RSLen bytes in all
Pat(z, b) == [i \in 1..RSLen |-> IF i <= z THEN 0 ELSE b]

RECURSIVE Mag(_)
\* the integer a big-endian byte string denotes
Mag(bytes) == IF Len(bytes) > 0 /\ bytes[1] = 0 THEN Mag(Tail(bytes)) ELSE bytes

\* base64.StdEncoding.DecodeString
DecodeString(s) ==
    IF s.text = "valid" THEN [bytes |-> s.raw, err |-> Nil]
    ELSE [bytes |-> <<>>, err |-> <<"illegal base64 data">>]

\* the string comparison s == ""
IsEmptyString(s) == s.text = "valid" /\ s.raw = <<>>

\* sha256.Sum256 twice, taken as collision free
DoubleSha256(bytes) == [sha256d |-> bytes]

Keys == {"K1", "K2"}
\* a key that is none of Keys: what recovery yields for a signature nobody here made
OtherKey == "Kx"
MainNetParams == "mainnet"
TestNetParams == "testnet"

\* the ECDSA relation on the signatures of this model: (r, s) verifies under key
\* for the double hash of the canonical form of msg, and recovers to key with recid
SignedFacts ==
    { [key |-> "K1", msg |-> <<104>>, r |-> Mag(Pat(0, 17)), s |-> Mag(Pat(0, 34)), recid |-> 0],
      [key |-> "K1", msg |-> <<104, 105>>, r |-> Mag(Pat(1, 128)), s |-> Mag(Pat(0, 144)), recid |-> 1],
      [key |-> "K2", msg |-> <<>>, r |-> Mag(Pat(0, 17)), s |-> Mag(Pat(0, 144)), recid |-> 0] }

\* ecdsa.Signature.Verify(hash, pubKey)
SignatureVerify(r, s, hash, pubKey) ==
    \E f \in SignedFacts :
        /\ f.key = pubKey /\ f.r = r /\ f.s = s
        /\ DoubleSha256(formatBitcoinMessageForVerification(f.msg)) = hash

\* ecdsa.RecoverCompact: the key, or an error for r = 0 or s = 0
RecoverCompact(recid, r, s, hash) ==
    IF r = <<>> \/ s = <<>> THEN [key |-> OtherKey, err |-> <<"invalid compact signature">>]
    ELSE LET hit == { f \in SignedFacts :
                        /\ f.r = r /\ f.s = s /\ f.recid = recid
                        /\ DoubleSha256(formatBitcoinMessageForVerification(f.msg)) = hash }
         IN  IF hit = {} THEN [key |-> OtherKey, err |-> Nil]
             ELSE [key |-> (CHOOSE f \in hit : TRUE).key, err |-> Nil]

\* A strict DER parser of SEQUENCE { INTEGER r, INTEGER s }: the two integers
ParseDER(der) ==
    LET n == Len(der)
        bad(why) == [r |-> <<>>, s |-> <<>>, err |-> <<why>>]
    IN  IF n < 6 THEN bad("malformed signature: too short")
        ELSE IF der[1] # 48 THEN bad("malformed signature: no header magic")
        ELSE IF der[2] # n - 2 THEN bad("malformed signature: bad length")
        ELSE IF der[3] # 2 THEN bad("malformed signature: no 1st int marker")
        ELSE LET rLen == der[4] IN
             IF 4 + rLen + 2 > n THEN bad("malformed signature: bogus R length")
        ELSE IF der[5 + rLen] # 2 THEN bad("malformed signature: no 2nd int marker")
        ELSE LET sLen == der[6 + rLen] IN
             IF 6 + rLen + sLen # n THEN bad("malformed signature: invalid S length")
        ELSE IF rLen = 0 THEN bad("malformed signature: R length is zero")
        ELSE IF der[5] >= 128 THEN bad("malformed signature: R is negative")
        ELSE IF rLen > 1 /\ der[5] = 0 /\ der[6] < 128
             THEN bad("malformed signature: R value has too much padding")
        ELSE IF sLen = 0 THEN bad("malformed signature: S length is zero")
        ELSE IF der[7 + rLen] >= 128 THEN bad("malformed signature: S is negative")
        ELSE IF sLen > 1 /\ der[7 + rLen] = 0 /\ der[8 + rLen] < 128
             THEN bad("malformed signature: S value has too much padding")
        ELSE [r |-> Mag(SubSeq(der, 5, 4 + rLen)),
              s |-> Mag(SubSeq(der, 7 + rLen, 6 + rLen + sLen)),
              err |-> Nil]

\* ecdsa.ParseDERSignature: ParseDER, and r and s are not zero
ParseDERSignature(der) ==
    LET p == ParseDER(der) IN
    IF p.err # Nil THEN p
    ELSE IF p.r = <<>> THEN [r |-> <<>>, s |-> <<>>, err |-> <<"invalid signature: R is 0">>]
    ELSE IF p.s = <<>> THEN [r |-> <<>>, s |-> <<>>, err |-> <<"invalid signature: S is 0">>]
    ELSE p

\* Address strings
EmptyAddress == [kind |-> "empty", key |-> "", comp |-> FALSE, net |-> ""]
GarbageAddress == [kind |-> "garbage", key |-> "", comp |-> FALSE, net |-> ""]
\* the P2PKH address of hash160 of the (compressed or not) serialization of key
P2PKH(key, comp, net) == [kind |-> "p2pkh", key |-> key, comp |-> comp, net |-> net]

\* verifier.VerifyWithChain: decode the address and the envelope, recover the
\* key, compare the hash160 of its serialization with the address
VerifyWithChain(signedMessage, params) ==
    LET a == signedMessage.Address
        dec == DecodeString(signedMessage.Signature)
        sig == dec.bytes
        fail(why) == [valid |-> FALSE, err |-> <<why>>]
    IN  IF a.kind # "p2pkh" \/ a.net # params THEN fail("could not decode address")
        ELSE IF dec.err # Nil THEN fail("could not decode signature")
        ELSE IF Len(sig) # 65 THEN fail("wrong signature length")
        ELSE IF sig[1] < 27 \/ sig[1] > 42 THEN fail("invalid recovery flag")
        ELSE LET hash == DoubleSha256(formatBitcoinMessageForVerification(signedMessage.Message))
                 rec == RecoverCompact((sig[1] - 27) % 4, Mag(SubSeq(sig, 2, 33)),
                                       Mag(SubSeq(sig, 34, 65)), hash)
             IN  IF rec.err # Nil THEN fail("could not recover pubkey")
                 ELSE IF sig[1] >= 35 THEN fail("cannot use segwit format for P2PKH address")
                 ELSE [valid |-> a.key = rec.key /\ a.comp = (sig[1] >= 31), err |-> Nil]

\* verifier.Verify
Verify(signedMessage) == VerifyWithChain(signedMessage, MainNetParams)

----------------------------------------------------------------------------
(* Signature envelope decoder and DER builder *)

\* recoveryID := int(headerByte-27) % 4, the subtraction in 8 bits
recoveryIDOf(headerByte) == ((headerByte + 256 - 27) % 256) % 4

isCompressedOf(headerByte) == headerByte >= 31

\* the range check without its lower limit
invalidHeaderByteNoLowerLimit(headerByte) == headerByte > 42

invalidHeaderByte(headerByte) ==
    /\ (headerByte < 27 \/ headerByte > 34)
    /\ (headerByte < 35 \/ headerByte > 42)

RECURSIVE stripLeadingZeros(_)
\* for rLen > 0 && rBytes[0] == 0 { rBytes = rBytes[1:]; rLen-- }
stripLeadingZeros(bytes) ==
    IF Len(bytes) > 0 /\ bytes[1] = 0 THEN stripLeadingZeros(Tail(bytes)) ELSE bytes

\* if rLen > 0 && rBytes[0]&0x80 != 0 { rBytes = append([]byte{0x00}, rBytes...) }
ensurePositive(bytes) ==
    IF Len(bytes) > 0 /\ bytes[1] >= 128 THEN <<0>> \o bytes ELSE bytes

\* one component as the builder emits it
derInteger(bytes) == ensurePositive(stripLeadingZeros(bytes))

\* 0x30 <length> 0x02 <length of R> <R> 0x02 <length of S> <S>
toDER(r, s) ==
    LET rBytes == derInteger(r)
        sBytes == derInteger(s)
        rLen == Len(rBytes)
        sLen == Len(sBytes)
        totalLen == 2 + rLen + 2 + sLen
    IN  <<48, totalLen % 256, 2, rLen % 256>> \o rBytes \o <<2, sLen % 256>> \o sBytes

\* what a call of verifySignatureDirectly returned and how far it went: decoded once
\* recoveryID and isCompressed are computed, hashed once the message is formatted
\* and hashed, verified once the curve verification is called
DirectResult(valid, err, decoded, hdr, hashed, verified) ==
    [valid |-> valid, err |-> err, decoded |-> decoded,
     recoveryID |-> IF decoded THEN recoveryIDOf(hdr) ELSE 0,
     isCompressed |-> IF decoded THEN isCompressedOf(hdr) ELSE FALSE,
     hashed |-> hashed, verified |-> verified]

verifySignatureDirectly(pubKey, message, signatureBase64) ==
    LET dec == DecodeString(signatureBase64)
        sigBytes == dec.bytes
    IN  IF dec.err # Nil
        THEN DirectResult(FALSE, Wrap("invalid base64 signature", dec.err), FALSE, 0, FALSE, FALSE)
        ELSE IF Len(sigBytes) < 65
        THEN DirectResult(FALSE, <<"signature too short (expected at least 65 bytes)">>,
                          FALSE, 0, FALSE, FALSE)
        ELSE LET headerByte == sigBytes[1] IN
        IF invalidHeaderByte(headerByte)
        THEN DirectResult(FALSE, <<"invalid signature header byte">>, TRUE, headerByte, FALSE, FALSE)
        ELSE LET formattedMsg == formatBitcoinMessageForVerification(message)
                 messageHash == DoubleSha256(formattedMsg)
                 der == toDER(SubSeq(sigBytes, 2, 33), SubSeq(sigBytes, 34, 65))
                 signature == ParseDERSignature(der)
             IN  IF signature.err # Nil
                 THEN DirectResult(FALSE, Wrap("error parsing signature", signature.err),
                                   TRUE, headerByte, TRUE, FALSE)
                 ELSE DirectResult(SignatureVerify(signature.r, signature.s, messageHash, pubKey),
                                   Nil, TRUE, headerByte, TRUE, TRUE)

----------------------------------------------------------------------------
(* Address deriver and entry points, as functions of their arguments.  ext    *)
(* counts the calls of the external address-based verification, extTrue says  *)
(* whether it answered true.                                                  *)

\* btcutil.Hash160(pubKey.SerializeCompressed()), NewAddressPubKeyHash, EncodeAddress
deriveAddressFromPubKey(pubKey, params) ==
    [addr |-> P2PKH(pubKey, TRUE, params), err |-> Nil]

DeriveAddressFromPubKey(pubKey) == deriveAddressFromPubKey(pubKey, MainNetParams)

Outcome(valid, err, ext, extTrue) ==
    [valid |-> valid, err |-> err, ext |-> ext, extTrue |-> extTrue]

\* the message checked before the address
VerifyBip137SignatureWithParamsMessageFirst(address, message, signatureBase64, params) ==
    IF message = <<>> THEN Outcome(FALSE, ErrEmptyMessage, 0, FALSE)
    ELSE IF address = EmptyAddress THEN Outcome(FALSE, ErrEmptyAddress, 0, FALSE)
    ELSE IF IsEmptyString(signatureBase64) THEN Outcome(FALSE, ErrEmptySignature, 0, FALSE)
    ELSE LET signedMessage == [Address |-> address, Message |-> message,
                               Signature |-> signatureBase64]
             r == VerifyWithChain(signedMessage, params)
         IN  IF r.err # Nil
             THEN Outcome(FALSE, Wrap("signature verification error", r.err), 1, r.valid)
             ELSE Outcome(r.valid, Nil, 1, r.valid)

VerifyBip137SignatureWithParams(address, message, signatureBase64, params) ==
    IF address = EmptyAddress THEN Outcome(FALSE, ErrEmptyAddress, 0, FALSE)
    ELSE IF message = <<>> THEN Outcome(FALSE, ErrEmptyMessage, 0, FALSE)
    ELSE IF IsEmptyString(signatureBase64) THEN Outcome(FALSE, ErrEmptySignature, 0, FALSE)
    ELSE LET signedMessage == [Address |-> address, Message |-> message,
                               Signature |-> signatureBase64]
             r == VerifyWithChain(signedMessage, params)
         IN  IF r.err # Nil
             THEN Outcome(FALSE, Wrap("signature verification error", r.err), 1, r.valid)
             ELSE Outcome(r.valid, Nil, 1, r.valid)

VerifyBip137Signature(address, message, signatureBase64) ==
    VerifyBip137SignatureWithParams(address, message, signatureBase64, MainNetParams)

verifyWithDerivedAddress(pubKey, message, signatureBase64) ==
    LET dec == DecodeString(signatureBase64) IN
    IF dec.err # Nil
    THEN Outcome(FALSE, Wrap("invalid base64 signature", dec.err), 0, FALSE)
    ELSE IF Len(dec.bytes) < 1 THEN Outcome(FALSE, <<"signature too short">>, 0, FALSE)
    ELSE LET d == deriveAddressFromPubKey(pubKey, MainNetParams) IN
         IF d.err # Nil
         THEN Outcome(FALSE, Wrap("failed to derive address from public key", d.err), 0, FALSE)
         ELSE VerifyBip137Signature(d.addr, message, signatureBase64)

----------------------------------------------------------------------------
(* Inputs *)

MaxMsgLen == 2
MaxExtra == 1

\* the first n bytes of "hijk..."
MsgOf(n) == [i \in 1..n |-> 103 + i]
Messages == { MsgOf(n) : n \in 0..MaxMsgLen }

Addresses ==
    { EmptyAddress, GarbageAddress,
      P2PKH("K1", TRUE, MainNetParams), P2PKH("K1", FALSE, MainNetParams),
      P2PKH("K2", TRUE, MainNetParams), P2PKH("K1", TRUE, TestNetParams) }

Headers == {26, 27, 28, 31, 32, 34, 35, 42, 43}
RValues == {Pat(0, 17), Pat(1, 128), Pat(RSLen, 0)}
SValues == {Pat(0, 34), Pat(0, 144), Pat(RSLen, 0)}

Base64Of(bytes) == [text |-> "valid", raw |-> bytes]
NotBase64 == [text |-> "invalid", raw |-> <<>>]

Signatures ==
    {NotBase64, Base64Of(<<>>), Base64Of(<<31>>), Base64Of(<<31>> \o Pat(0, 17) \o Tail(Pat(0, 34)))}
    \cup { Base64Of(<<h>> \o r \o s \o [i \in 1..x |-> 0]) :
             h \in Headers, r \in RValues, s \in SValues, x \in 0..MaxExtra }

NoCall == [called |-> FALSE]
NoReturn == [returned |-> FALSE, valid |-> FALSE, err |-> Nil]
Return(valid, err) == [returned |-> TRUE, valid |-> valid, err |-> err]
NoArgs == [address |-> EmptyAddress, message |-> <<>>, signature |-> NotBase64,
           pubKey |-> "", params |-> ""]

Called(r) == [called |-> TRUE, r |-> r]
NoCalls == [ext |-> 0, capTrue |-> FALSE, fallback |-> 0]
NoSelect == [taken |-> "none", ctx |-> FALSE, res |-> FALSE]
ChanCap == 1

Idle ==
    /\ pc = "idle" /\ op = "none" /\ args = NoArgs /\ ret = NoReturn
    /\ calls = NoCalls /\ directRes = NoCall /\ addrRes = NoCall
    /\ ctxDone = FALSE /\ wpc = "none" /\ wres = NoCall /\ resultCh = <<>>
    /\ order = "none" /\ sel = NoSelect /\ fin = <<>> /\ fout = <<>>

Init == Idle

----------------------------------------------------------------------------
(* One call of an entry point *)

ctxVars == <<ctxDone, wpc, wres, resultCh, order, sel>>
fnVars == <<fin, fout>>

CallVerifyBip137Signature(address, message, signatureBase64) ==
    /\ pc = "idle"
    /\ LET r == VerifyBip137Signature(address, message, signatureBase64) IN
       /\ ret' = Return(r.valid, r.err)
       /\ calls' = [calls EXCEPT !.ext = r.ext, !.capTrue = r.extTrue]
    /\ op' = "VerifyBip137Signature"
    /\ args' = [NoArgs EXCEPT !.address = address, !.message = message,
                              !.signature = signatureBase64, !.params = MainNetParams]
    /\ pc' = "done"
    /\ UNCHANGED <<directRes, addrRes, ctxVars, fnVars>>

CallVerifyBip137SignatureWithParams(address, message, signatureBase64, params) ==
    /\ pc = "idle"
    /\ LET r == VerifyBip137SignatureWithParams(address, message, signatureBase64, params) IN
       /\ ret' = Return(r.valid, r.err)
       /\ calls' = [calls EXCEPT !.ext = r.ext, !.capTrue = r.extTrue]
    /\ op' = "VerifyBip137SignatureWithParams"
    /\ args' = [NoArgs EXCEPT !.address = address, !.message = message,
                              !.signature = signatureBase64, !.params = params]
    /\ pc' = "done"
    /\ UNCHANGED <<directRes, addrRes, ctxVars, fnVars>>

\* the fallback taken on a false result too
CallVerifyWithPubKeyFallbackOnFalse(pubKey, message, signatureBase64) ==
    /\ pc = "idle"
    /\ LET d == verifySignatureDirectly(pubKey, message, signatureBase64) IN
       /\ directRes' = Called(d)
       /\ calls' = [calls EXCEPT !.capTrue = d.verified /\ d.valid]
       /\ IF d.err = Nil /\ d.valid
          THEN ret' = Return(d.valid, Nil) /\ pc' = "done"
          ELSE ret' = ret /\ pc' = "fallback"
    /\ op' = "VerifyWithPubKey"
    /\ args' = [NoArgs EXCEPT !.pubKey = pubKey, !.message = message,
                              !.signature = signatureBase64]
    /\ UNCHANGED <<addrRes, ctxDone, wpc, wres, resultCh, order, sel, fin, fout>>

\* VerifyWithPubKey up to its first return: the direct attempt
CallVerifyWithPubKey(pubKey, message, signatureBase64) ==
    /\ pc = "idle"
    /\ LET d == verifySignatureDirectly(pubKey, message, signatureBase64) IN
       /\ directRes' = Called(d)
       /\ calls' = [calls EXCEPT !.capTrue = d.verified /\ d.valid]
       /\ IF d.err = Nil
          THEN ret' = Return(d.valid, Nil) /\ pc' = "done"
          ELSE ret' = ret /\ pc' = "fallback"
    /\ op' = "VerifyWithPubKey"
    /\ args' = [NoArgs EXCEPT !.pubKey = pubKey, !.message = message,
                              !.signature = signatureBase64]
    /\ UNCHANGED <<addrRes, ctxVars, fnVars>>

\* VerifyWithPubKey, second attempt: return verifyWithDerivedAddress(...)
VerifyWithPubKeyFallback ==
    /\ pc = "fallback"
    /\ LET r == verifyWithDerivedAddress(args.pubKey, args.message, args.signature) IN
       /\ addrRes' = Called(r)
       /\ ret' = Return(r.valid, r.err)
       /\ calls' = [calls EXCEPT !.ext = r.ext, !.capTrue = @ \/ r.extTrue,
                                 !.fallback = @ + 1]
    /\ pc' = "done"
    /\ UNCHANGED <<op, args, directRes, ctxVars, fnVars>>

\* The validation program: both paths on the same message and signature, the
\* address derived from the key
CompareMethods(pubKey, message, signatureBase64) ==
    /\ pc = "idle"
    /\ directRes' = Called(verifySignatureDirectly(pubKey, message, signatureBase64))
    /\ addrRes' = Called(VerifyBip137Signature(DeriveAddressFromPubKey(pubKey).addr,
                                               message, signatureBase64))
    /\ op' = "CompareMethods"
    /\ args' = [NoArgs EXCEPT !.pubKey = pubKey, !.message = message,
                              !.signature = signatureBase64]
    /\ pc' = "done"
    /\ UNCHANGED <<ret, calls, ctxVars, fnVars>>

----------------------------------------------------------------------------
(* VerifyBip137SignatureWithContext: the caller, the worker goroutine and   *)
(* the context.  order records which came first, the context being done or  *)
(* the verification completing; sel what the select saw when it chose.      *)

\* up to the select: the channel is made and the goroutine started
CallVerifyBip137SignatureWithContext(msg, alreadyDone) ==
    /\ pc = "idle"
    /\ op' = "VerifyBip137SignatureWithContext"
    /\ args' = [NoArgs EXCEPT !.address = msg.Address, !.message = msg.Message,
                              !.signature = msg.Signature]
    /\ resultCh' = <<>>
    /\ wpc' = "verify"
    /\ ctxDone' = alreadyDone
    /\ order' = IF alreadyDone THEN "ctx" ELSE "none"
    /\ pc' = "select"
    /\ UNCHANGED <<ret, calls, directRes, addrRes, wres, sel, fnVars>>

\* the deadline elapses or the context is cancelled
ContextDone ==
    /\ op = "VerifyBip137SignatureWithContext"
    /\ ~ctxDone
    /\ ctxDone' = TRUE
    /\ order' = IF order = "none" THEN "ctx" ELSE order
    /\ UNCHANGED <<pc, op, args, ret, calls, directRes, addrRes, wpc, wres, resultCh, sel,
                   fnVars>>

\* valid, err := verifier.Verify(signedMessage)
WorkerVerify ==
    /\ wpc = "verify"
    /\ LET signedMessage == [Address |-> args.address, Message |-> args.message,
                             Signature |-> args.signature]
           r == Verify(signedMessage)
       IN  /\ wres' = Called(r)
           /\ calls' = [calls EXCEPT !.ext = @ + 1, !.capTrue = @ \/ r.valid]
    /\ wpc' = "send"
    /\ order' = IF order = "none" THEN "comp" ELSE order
    /\ UNCHANGED <<pc, op, args, ret, directRes, addrRes, ctxDone, resultCh, sel, fnVars>>

\* the send on an unbuffered channel: it completes only while the caller is
\* waiting in the select
WorkerSendUnbuffered ==
    /\ wpc = "send"
    /\ pc = "select"
    /\ resultCh = <<>>
    /\ resultCh' = Append(resultCh, wres.r)
    /\ wpc' = "done"
    /\ UNCHANGED <<pc, op, args, ret, calls, directRes, addrRes, ctxDone, wres, order, sel,
                   fnVars>>

\* resultCh <- {valid, err}
WorkerSend ==
    /\ wpc = "send"
    /\ Len(resultCh) < ChanCap
    /\ resultCh' = Append(resultCh, wres.r)
    /\ wpc' = "done"
    /\ UNCHANGED <<pc, op, args, ret, calls, directRes, addrRes, ctxDone, wres, order, sel,
                   fnVars>>

\* the timeout reported as a plain false
timeoutReturnBareFalse == Return(FALSE, Nil)

\* the error test inverted
resultReturnInverted(result) ==
    IF result.err = Nil
    THEN Return(FALSE, Wrap("signature verification error", result.err))
    ELSE Return(TRUE, Nil)

\* what the ctx.Done() branch returns
timeoutReturn == Return(FALSE, Wrap("context done", ErrVerificationTimeout))

\* what the resultCh branch returns
resultReturn(result) ==
    IF result.err # Nil
    THEN Return(FALSE, Wrap("signature verification error", result.err))
    ELSE Return(result.valid, Nil)

\* the ctx.Done() branch taken whether or not the context is done
SelectContextDoneUnguarded ==
    /\ pc = "select"
    /\ ret' = timeoutReturn
    /\ sel' = [taken |-> "ctx", ctx |-> ctxDone, res |-> resultCh # <<>>]
    /\ pc' = "done"
    /\ UNCHANGED <<op, args, calls, directRes, addrRes, ctxDone, wpc, wres, resultCh, order,
                   fnVars>>

\* case <-ctx.Done()
SelectContextDone ==
    /\ pc = "select"
    /\ ctxDone
    /\ ret' = timeoutReturn
    /\ sel' = [taken |-> "ctx", ctx |-> ctxDone, res |-> resultCh # <<>>]
    /\ pc' = "done"
    /\ UNCHANGED <<op, args, calls, directRes, addrRes, ctxDone, wpc, wres, resultCh, order,
                   fnVars>>

\* case result := <-resultCh
SelectResult ==
    /\ pc = "select"
    /\ resultCh # <<>>
    /\ ret' = resultReturn(Head(resultCh))
    /\ resultCh' = Tail(resultCh)
    /\ sel' = [taken |-> "result", ctx |-> ctxDone, res |-> TRUE]
    /\ pc' = "done"
    /\ UNCHANGED <<op, args, calls, directRes, addrRes, ctxDone, wpc, wres, order, fnVars>>

SignedMessages ==
    { [Address |-> a, Message |-> m, Signature |-> s] :
        a \in Addresses, m \in Messages, s \in Signatures }

\* a new call is made only from the idle state
Next ==
    \/ pc = "idle" /\ \E a \in Addresses, m \in Messages, s \in Signatures :
          CallVerifyBip137Signature(a, m, s)
    \/ pc = "idle" /\ \E a \in Addresses, m \in Messages, s \in Signatures,
          p \in {MainNetParams, TestNetParams} :
          CallVerifyBip137SignatureWithParams(a, m, s, p)
    \/ pc = "idle" /\ \E k \in Keys, m \in Messages, s \in Signatures :
          CallVerifyWithPubKey(k, m, s)
    \/ VerifyWithPubKeyFallback
    \/ pc = "idle" /\ \E k \in Keys, m \in Messages, s \in Signatures :
          CompareMethods(k, m, s)
    \/ pc = "idle" /\ \E msg \in SignedMessages, d \in BOOLEAN :
          CallVerifyBip137SignatureWithContext(msg, d)
    \/ ContextDone
    \/ WorkerVerify
    \/ WorkerSend
    \/ SelectContextDone
    \/ SelectResult

Spec == Init /\ [][Next]_vars

\* The goroutine started by "go func()" is scheduled whenever it can take a step:
\* verifier.Verify does no I/O and waits for nothing, and the send proceeds as
\* soon as the channel has room.  The context and the caller's select get no
\* fairness: a context may never be done.
FairSpec == Init /\ [][Next]_vars /\ WF_vars(WorkerVerify) /\ WF_vars(WorkerSend)

----------------------------------------------------------------------------
(* The canonicalizer on its own: any number of calls, one after another *)

MaxFmtLen == 254
MaxVariant == 8
\* lengths around the one-byte limit, and the two around the two-byte limit
FmtLens == (0..2) \cup (251..MaxFmtLen) \cup {65535, 65536}
\* a message of n bytes
FmtMsg(n, v) == [i \in 1..n |-> (7 * i + v) % 256]
FmtMessages == { FmtMsg(n, v) : n \in FmtLens, v \in 0..MaxVariant }

\* one call, and a second one after it
Format(message) ==
    /\ pc \in {"idle", "once"}
    /\ pc' = IF pc = "idle" THEN "once" ELSE "twice"
    /\ op' = "formatBitcoinMessageForVerification"
    /\ fin' = message
    /\ fout' = formatBitcoinMessageForVerification(message)
    /\ UNCHANGED <<args, ret, calls, directRes, addrRes, ctxVars>>

NextFmt == pc \in {"idle", "once"} /\ \E message \in FmtMessages : Format(message)

SpecFmt == Init /\ [][NextFmt]_vars

----------------------------------------------------------------------------
(* The DER builder on its own, followed by a DER parser *)

\* z zero bytes, then b, then bytes of value t, RSLen bytes in all
Pat3(z, b, t) == [i \in 1..RSLen |-> IF i <= z THEN 0 ELSE IF i = z + 1 THEN b ELSE t]

FirstBytes == {1, 127, 128, 255}
TailBytes == {0, 255}
DerValues == { Pat3(z, b, t) : z \in 0..RSLen, b \in FirstBytes, t \in TailBytes }

BuildDER(r, s) ==
    /\ pc = "idle"
    /\ pc' = "done"
    /\ op' = "toDER"
    /\ fin' = [r |-> r, s |-> s]
    /\ fout' = [der |-> toDER(r, s), parsed |-> ParseDER(toDER(r, s))]
    /\ UNCHANGED <<args, ret, calls, directRes, addrRes, ctxVars>>

NextDer == pc = "idle" /\ \E r \in DerValues, s \in DerValues : BuildDER(r, s)

SpecDer == Init /\ [][NextDer]_vars

----------------------------------------------------------------------------
(* The envelope decoder on its own: verifySignatureDirectly on every header *)

Decode(pubKey, message, sigBytes) ==
    /\ pc = "idle"
    /\ pc' = "done"
    /\ op' = "verifySignatureDirectly"
    /\ fin' = [pubKey |-> pubKey, message |-> message, sigBytes |-> sigBytes]
    /\ fout' = verifySignatureDirectly(pubKey, message, Base64Of(sigBytes))
    /\ UNCHANGED <<args, ret, calls, directRes, addrRes, ctxVars>>

NextDecode ==
    pc = "idle" /\ \E h \in 0..255, r \in RValues, s \in SValues, x \in 0..MaxExtra,
       k \in Keys, m \in Messages :
       Decode(k, m, <<h>> \o r \o s \o [i \in 1..x |-> 0])

SpecDecode == Init /\ [][NextDecode]_vars

----------------------------------------------------------------------------
(* appendCompactSize on its own.  A uint64 argument is chosen by its four   *)
(* 16-bit words, least significant first, so that values at and above 2^32  *)
(* are among the inputs.                                                    *)

MaxPrefixLen == 2

\* the buffers b handed to appendCompactSize
Prefixes == {[i \in 1..k |-> 252 + i] : k \in 0..MaxPrefixLen}

LowWords == {0, 1, 252, 253, 254, 255, 256, 65535}
HighWords == {0, 1, 65535}

\* the uint64 with the 16-bit words w, as its 8 bytes
Uint64OfWords(w) == [i \in 1..8 |->
                        IF i % 2 = 1 THEN w[(i + 1) \div 2] % 256
                        ELSE w[i \div 2] \div 256]

EncodeSize(b, w) ==
    /\ pc = "idle"
    /\ pc' = "done"
    /\ op' = "appendCompactSize"
    /\ fin' = [b |-> b, n |-> w]
    /\ fout' = appendCompactSize(b, Uint64OfWords(w))
    /\ UNCHANGED <<args, ret, calls, directRes, addrRes, ctxVars>>

NextCompact ==
    pc = "idle" /\ \E b \in Prefixes, w0 \in LowWords, w1 \in HighWords,
       w2 \in HighWords, w3 \in HighWords :
       EncodeSize(b, <<w0, w1, w2, w3>>)

SpecCompact == Init /\ [][NextCompact]_vars

----------------------------------------------------------------------------
(* Properties *)

IsTimeout(r) == ErrorsIs(r.err, ErrVerificationTimeout)
Returned(name) == op = name /\ pc = "done"
AddressOps == {"VerifyBip137Signature", "VerifyBip137SignatureWithParams"}
DerivedAddressOutcome ==
    VerifyBip137Signature(DeriveAddressFromPubKey(args.pubKey).addr, args.message,
                          args.signature)

\* C1 as stated: VerifyWithPubKey takes the fallback exactly when the direct path
\* returned an error; without an error the direct boolean is returned and the
\* address path is not invoked; with an error the caller gets exactly the outcome of
\* address-based verification against the derived address.
C1_FallbackOutcomeIsAddressVerification ==
    Returned("VerifyWithPubKey") =>
        /\ directRes.called
        /\ addrRes.called <=> directRes.r.err # Nil
        /\ directRes.r.err = Nil =>
              /\ ret = Return(directRes.r.valid, Nil)
              /\ calls.fallback = 0 /\ calls.ext = 0
        /\ directRes.r.err # Nil =>
              ret = Return(DerivedAddressOutcome.valid, DerivedAddressOutcome.err)

\* C1 amended: the fallback is taken exactly when the direct path returned an error;
\* without an error the direct boolean is returned and the address path is not
\* invoked; with an error the caller gets (false, invalid base64) for a signature
\* that is not base64 and (false, too short) for one of zero bytes, the address
\* verification not being called in either case, and otherwise exactly the outcome
\* of VerifyBip137Signature on the derived address.
C1_FallbackIffDirectError ==
    Returned("VerifyWithPubKey") =>
        /\ directRes.called
        /\ addrRes.called <=> directRes.r.err # Nil
        /\ calls.fallback = IF directRes.r.err # Nil THEN 1 ELSE 0
        /\ directRes.r.err = Nil =>
              /\ ret = Return(directRes.r.valid, Nil)
              /\ calls.ext = 0
        /\ directRes.r.err # Nil =>
              IF args.signature.text # "valid"
              THEN /\ ret = Return(FALSE, <<"invalid base64 signature", "illegal base64 data">>)
                   /\ calls.ext = 0
              ELSE IF args.signature.raw = <<>>
              THEN ret = Return(FALSE, <<"signature too short">>) /\ calls.ext = 0
              ELSE /\ ret = Return(DerivedAddressOutcome.valid, DerivedAddressOutcome.err)
                   /\ calls.ext = DerivedAddressOutcome.ext

\* C1 witness: the direct path failed on the header and the fallback ran the
\* address verification
C1_Witness ==
    /\ Returned("VerifyWithPubKey")
    /\ directRes.called /\ directRes.r.err = <<"invalid signature header byte">>
    /\ addrRes.called /\ calls.ext = 1 /\ ret.err # Nil

CtxOp == "VerifyBip137SignatureWithContext"

\* the worker's result as the caller hands it on: the boolean as it is, an error
\* inside the returned one
HandsOn(result) ==
    IF result.err = Nil THEN ret.valid = result.valid /\ ret.err = Nil
    ELSE ~ret.valid /\ ErrorsIs(ret.err, result.err)

\* C2 as stated: VerifyBip137SignatureWithContext returns the timeout error if the
\* context is done before the verification completes, and the underlying result or
\* error if the verification completes first, in every interleaving.
C2_FirstEventDecides ==
    Returned(CtxOp) =>
        /\ order = "ctx" => IsTimeout(ret)
        /\ order = "comp" => wres.called /\ HandsOn(wres.r)

\* C2 amended: the return is decided by what the select finds ready, not by which
\* event came first: the timeout error is returned only if the context is done at
\* the select and always if nothing has been delivered by then; the underlying
\* boolean, or the underlying error wrapped, is returned only if the worker's
\* result has been delivered and always if the context is not done at the select;
\* with both ready either is returned.
C2_SelectDecides ==
    Returned(CtxOp) =>
        /\ IsTimeout(ret) => sel.ctx /\ ret = Return(FALSE, ret.err)
        /\ ~IsTimeout(ret) =>
              /\ sel.res /\ wres.called
              /\ ret = IF wres.r.err = Nil THEN Return(wres.r.valid, Nil)
                       ELSE Return(FALSE, Wrap("signature verification error", wres.r.err))
        /\ sel.ctx /\ ~sel.res => IsTimeout(ret)
        /\ sel.res /\ ~sel.ctx => ~IsTimeout(ret)

\* C2 witness: both were ready at the select, the verification having completed
\* first, and the timeout was returned
C2_Witness ==
    /\ Returned(CtxOp) /\ order = "comp" /\ sel.ctx /\ sel.res /\ IsTimeout(ret)
    /\ wres.called /\ wres.r.valid

\* C3: VerifyBip137Signature and VerifyBip137SignatureWithParams return (false,
\* ErrEmptyAddress) for an empty address, else (false, ErrEmptyMessage) for an empty
\* message, else (false, ErrEmptySignature) for an empty signature, the external
\* verification never having been invoked.
C3_EmptyInputsRejectedInOrder ==
    (op \in AddressOps /\ pc = "done") =>
        /\ args.address = EmptyAddress =>
              ret = Return(FALSE, ErrEmptyAddress) /\ calls.ext = 0
        /\ args.address # EmptyAddress /\ args.message = <<>> =>
              ret = Return(FALSE, ErrEmptyMessage) /\ calls.ext = 0
        /\ args.address # EmptyAddress /\ args.message # <<>>
              /\ IsEmptyString(args.signature) =>
              ret = Return(FALSE, ErrEmptySignature) /\ calls.ext = 0

\* C3 witness: all three fields empty, the address reported
C3_Witness ==
    /\ op \in AddressOps /\ pc = "done"
    /\ args.address = EmptyAddress /\ args.message = <<>> /\ IsEmptyString(args.signature)
    /\ ret.err = ErrEmptyAddress

\* C4: whatever the operation and the input, a returned true comes with a nil error
\* and only after the verification capability itself answered true, and a returned
\* error comes with false.
C4_TrueOnlyFromCapability ==
    ret.returned =>
        /\ ret.valid => ret.err = Nil /\ calls.capTrue
        /\ ret.err # Nil => ~ret.valid

\* C4 witness: the context variant returned true
C4_Witness == Returned(CtxOp) /\ ret.valid /\ ret.err = Nil

\* C5: for a key and the address derived from it, verifySignatureDirectly and
\* VerifyBip137Signature on the same message and signature return the same boolean
\* whenever neither returns an error, whatever the accepted header byte.
C5_MethodsAgree ==
    (Returned("CompareMethods") /\ directRes.r.err = Nil /\ addrRes.r.err = Nil) =>
        directRes.r.valid = addrRes.r.valid

\* C6: every entry point answers an empty message or an empty signature with an
\* input-validation error (the empty-message or empty-signature error; for the
\* address entry points the empty-address error comes first), never with a
\* verification outcome or an error of another kind.
C6_EmptyInputIsValidationFailure ==
    (ret.returned /\ (args.message = <<>> \/ IsEmptyString(args.signature))) =>
        /\ ~ret.valid
        /\ \/ args.message = <<>> /\ ret.err = ErrEmptyMessage
           \/ IsEmptyString(args.signature) /\ ret.err = ErrEmptySignature
           \/ op \in AddressOps /\ args.address = EmptyAddress /\ ret.err = ErrEmptyAddress

HeaderError == <<"invalid signature header byte">>

\* C7: on a signature of at least 65 bytes the decoder accepts headers 27..30 with
\* recovery id header-27 and uncompressed, 31..34 with recovery id header-31 and
\* compressed, 35..42 with recovery id (header-27) mod 4, and rejects every other
\* header byte, those below 27 included, with the invalid-header error before any
\* hashing or curve verification.
C7_HeaderClassification ==
    op = "verifySignatureDirectly" =>
        LET h == fin.sigBytes[1] IN
        /\ h \in 27..30 => /\ fout.err # HeaderError /\ fout.hashed
                           /\ fout.recoveryID = h - 27 /\ ~fout.isCompressed
        /\ h \in 31..34 => /\ fout.err # HeaderError /\ fout.hashed
                           /\ fout.recoveryID = h - 31 /\ fout.isCompressed
        /\ h \in 35..42 => /\ fout.err # HeaderError /\ fout.hashed
                           /\ fout.recoveryID = (h - 27) % 4
        /\ h \notin 27..42 => /\ fout.err = HeaderError /\ ~fout.valid
                              /\ ~fout.hashed /\ ~fout.verified

\* C7 witness: a header below 27 rejected, and an extended header carried through to
\* the curve verification
C7_Witness ==
    /\ op = "verifySignatureDirectly"
    /\ \/ fin.sigBytes[1] = 3 /\ fout.err = HeaderError
       \/ fin.sigBytes[1] = 42 /\ fout.verified /\ fout.recoveryID = 3

\* C8: an r or s of zero bytes only is emitted as an INTEGER of length 1 holding
\* 0x00; no INTEGER of length 0 is ever emitted.
C8_ZeroIsOneByte ==
    op = "toDER" =>
        LET rLen == fout.der[4]
            sLen == fout.der[6 + rLen]
        IN  /\ rLen >= 1 /\ sLen >= 1
            /\ Mag(fin.r) = <<>> => rLen = 1 /\ fout.der[5] = 0
            /\ Mag(fin.s) = <<>> => sLen = 1 /\ fout.der[7 + rLen] = 0

\* C9: what the builder emits for 32-byte r and s parses, under a DER parser, to the
\* integers r and s.
C9_DerRoundTrip ==
    op = "toDER" =>
        /\ fout.parsed.err = Nil
        /\ fout.parsed.r = Mag(fin.r)
        /\ fout.parsed.s = Mag(fin.s)

\* CompactSize of a length below 2^31, by its value
CompactSizeOf(n) ==
    IF n < 253 THEN <<n>>
    ELSE IF n <= 65535 THEN <<253, n % 256, n \div 256>>
    ELSE <<254, n % 256, (n \div 256) % 256, (n \div 65536) % 256, n \div 16777216>>

\* C10: formatBitcoinMessageForVerification returns CompactSize(24), the 24 bytes
\* of "Bitcoin Signed Message:\n", CompactSize(length of the message) and the
\* message, for every message, the empty one included, and whatever was formatted
\* before.
C10_CanonicalForm ==
    op = "formatBitcoinMessageForVerification" =>
        fout = <<24>>
               \o <<66, 105, 116, 99, 111, 105, 110, 32, 83, 105, 103, 110, 101, 100, 32,
                    77, 101, 115, 115, 97, 103, 101, 58, 10>>
               \o CompactSizeOf(Len(fin)) \o fin

\* C10 witness: a second call, on a message whose length takes three bytes
C10_Witness ==
    /\ op = "formatBitcoinMessageForVerification" /\ pc = "twice"
    /\ Len(fin) = 253 /\ Len(fout) = 25 + 3 + 253

\* the two bytes of a 16-bit word, least significant first
LE2(x) == <<x % 256, x \div 256>>

\* the encodings of 0, 252, 253, 254, 65535, 65536, 4294967295 and 4294967296,
\* each value given by its 16-bit words
BoundaryEncodings ==
    {<< <<0, 0, 0, 0>>, <<0>> >>,
     << <<252, 0, 0, 0>>, <<252>> >>,
     << <<253, 0, 0, 0>>, <<253, 253, 0>> >>,
     << <<254, 0, 0, 0>>, <<253, 254, 0>> >>,
     << <<65535, 0, 0, 0>>, <<253, 255, 255>> >>,
     << <<0, 1, 0, 0>>, <<254, 0, 0, 1, 0>> >>,
     << <<65535, 65535, 0, 0>>, <<254, 255, 255, 255, 255>> >>,
     << <<0, 0, 1, 0>>, <<255, 0, 0, 0, 0, 1, 0, 0, 0>> >>}

\* C11: appendCompactSize(b, n) returns b, unchanged, followed by the CompactSize
\* encoding of n: the byte n below 253; 253 and 2 little-endian bytes up to
\* 0xFFFF; 254 and 4 little-endian bytes up to 0xFFFFFFFF; 255 and 8
\* little-endian bytes above; with the stated bytes at 0, 252, 253, 254, 65535,
\* 65536, 4294967295 and 4294967296.
C11_CompactSizeEncoding ==
    op = "appendCompactSize" =>
        LET w == fin.n
            enc == IF w[4] = 0 /\ w[3] = 0 /\ w[2] = 0 /\ w[1] < 253 THEN <<w[1]>>
                   ELSE IF w[4] = 0 /\ w[3] = 0 /\ w[2] = 0 THEN <<253>> \o LE2(w[1])
                   ELSE IF w[4] = 0 /\ w[3] = 0 THEN <<254>> \o LE2(w[1]) \o LE2(w[2])
                   ELSE <<255>> \o LE2(w[1]) \o LE2(w[2]) \o LE2(w[3]) \o LE2(w[4])
        IN  /\ fout = fin.b \o enc
            /\ \A e \in BoundaryEncodings : w = e[1] => fout = fin.b \o e[2]

\* C11 witness: 4294967296 appended to a buffer that already holds bytes
C11_Witness ==
    /\ op = "appendCompactSize" /\ pc = "done"
    /\ fin.n = <<0, 0, 1, 0>> /\ Len(fin.b) = 2
    /\ Len(fout) = 2 + 9 /\ fout[3] = 255

\* C12: VerifyBip137SignatureWithContext never reports a timeout or cancellation
\* as a bare false: the ctx.Done() branch always returns false with an error
\* wrapping ErrVerificationTimeout; (false, nil) is returned only when the
\* verification completed and itself answered false without error; an error
\* wrapping ErrVerificationTimeout is returned only when the context was done.
C12_TimeoutIsAnError ==
    Returned(CtxOp) =>
        /\ sel.taken = "ctx" => ~ret.valid /\ ret.err # Nil /\ IsTimeout(ret)
        /\ ret = Return(FALSE, Nil) =>
              /\ sel.taken = "result"
              /\ wpc = "done" /\ wres.called
              /\ wres.r.valid = FALSE /\ wres.r.err = Nil
        /\ IsTimeout(ret) => ctxDone /\ sel.taken = "ctx"

\* C12 witness: the verification answered false without error, the context was
\* done as well, and the ctx.Done() branch returned the timeout error
C12_Witness ==
    /\ Returned(CtxOp) /\ sel.taken = "ctx" /\ ctxDone
    /\ wres.called /\ wres.r.valid = FALSE /\ wres.r.err = Nil
    /\ ret.err = <<"context done">> \o ErrVerificationTimeout

\* the worker's position and the channel agree: the verification has run once
\* when the worker is past it, not at all before; the channel holds the one
\* result sent until the caller's select receives it
WorkerState ==
    /\ wpc \in {"verify", "send", "done"}
    /\ calls.ext = IF wpc = "verify" THEN 0 ELSE 1
    /\ wres.called = (wpc # "verify")
    /\ Len(resultCh) <= ChanCap
    /\ wpc # "done" => resultCh = <<>> /\ sel.taken # "result"
    /\ wpc = "done" =>
          IF sel.taken = "result" THEN resultCh = <<>> ELSE resultCh = <<wres.r>>

\* C13: in VerifyBip137SignatureWithContext the worker runs the verification
\* exactly once and never again, is never blocked at its send, whether the
\* caller is still in the select or has returned on either branch, always
\* terminates, and puts exactly one value on the channel; after a return on the
\* ctx.Done() branch that value stays on the channel, unread.
C13_WorkerRunsOnceAndNeverBlocks ==
    /\ [](op = CtxOp => WorkerState)
    /\ [](wpc = "send" => ENABLED WorkerSend)
    /\ [][op = CtxOp =>
            /\ calls'.ext > calls.ext => wpc = "verify" /\ wpc' = "send"
            /\ Len(resultCh') > Len(resultCh) =>
                  wpc = "send" /\ wpc' = "done" /\ resultCh' = <<wres.r>>
            /\ wpc = "done" => wpc' = "done"
            /\ wpc = "send" => wpc' \in {"send", "done"}]_vars
    /\ (op = CtxOp) ~> (wpc = "done" /\ calls.ext = 1)
    /\ (sel.taken = "ctx") ~> [](wpc = "done" /\ resultCh = <<wres.r>>)

\* C13 witness: the caller returned on the ctx.Done() branch before the
\* verification had run; the worker then ran it, sent, and finished, and the
\* value lies on the channel
C13_Witness ==
    /\ Returned(CtxOp) /\ sel.taken = "ctx" /\ ~sel.res /\ order = "ctx"
    /\ wpc = "done" /\ calls.ext = 1 /\ resultCh = <<wres.r>>

====
